---- MODULE Spec2Model ----
(***************************************************************************)
(* Model of app/youtube_downloader.py: the audio fetcher                   *)
(* (download_audio_from_url), the title prober (extract_title_only) and    *)
(* the URL validator (validate_video_url).                                 *)
(*                                                                         *)
(* Text is a sequence of one-character strings.  The external pipeline     *)
(* (yt_dlp.YoutubeDL.extract_info), the environment and the filesystem are *)
(* inputs: every outcome they can produce is a nondeterministic choice.    *)
(* Exceptions raised by the pipeline are Exception subclasses.             *)
(***************************************************************************)
EXTENDS Integers, Sequences, FiniteSets, TLC

\* ---------------------------------------------------------------- bounds
MaxCalls == 2          \* fetchAudio calls in one run of the concurrent model
MaxFiles == 2          \* files one pipeline run may write
MaxProxyLen == 16      \* longest PROXY_URL value
MaxTitleLen == 3       \* longest title the metadata-only extraction reports

Calls == 1..MaxCalls

\* ---------------------------------------------------------------- text
Take(s, n) == SubSeq(s, 1, IF n < Len(s) THEN n ELSE Len(s))

StartsWith(s, p) == Len(p) <= Len(s) /\ SubSeq(s, 1, Len(p)) = p

EndsWith(s, p) ==
    Len(p) <= Len(s) /\ SubSeq(s, Len(s) - Len(p) + 1, Len(s)) = p

Contains(s, p) ==
    \E i \in 0..(Len(s) - Len(p)) : SubSeq(s, i + 1, i + Len(p)) = p

Digit(d) == <<"0", "1", "2", "3", "4", "5", "6", "7", "8", "9">>[d + 1]

\* str(n) of a non-negative integer
RECURSIVE Str(_)
Str(n) == IF n < 10 THEN <<Digit(n)>> ELSE Str(n \div 10) \o <<Digit(n % 10)>>

\* fnmatch over "*" and literal characters, as glob.glob applies it to a name
RECURSIVE FnMatch(_, _)
FnMatch(pat, s) ==
    IF pat = <<>> THEN s = <<>>
    ELSE IF Head(pat) = "*"
         THEN FnMatch(Tail(pat), s) \/ (s # <<>> /\ FnMatch(pat, Tail(s)))
         ELSE s # <<>> /\ Head(s) = Head(pat) /\ FnMatch(Tail(pat), Tail(s))

\* str.strip() on a title
RECURSIVE LStrip(_)
LStrip(s) == IF s # <<>> /\ Head(s) = " " THEN LStrip(Tail(s)) ELSE s

RECURSIVE RStrip(_)
RStrip(s) ==
    IF s # <<>> /\ s[Len(s)] = " " THEN RStrip(SubSeq(s, 1, Len(s) - 1)) ELSE s

Strip(s) == RStrip(LStrip(s))

\* ---------------------------------------------------------------- files
Mp3 == <<"m", "p", "3">>
M4a == <<"m", "4", "a">>
Wav == <<"w", "a", "v">>
Webm == <<"w", "e", "b", "m">>

\* the endswith tuple of the broadened search
AudioSuffixes == {<<".">> \o Mp3, <<".">> \o M4a, <<".">> \o Wav}

\* f"yt_{task_id}_": the part of output_template before %(title)s.%(ext)s
OutputPrefix(task_id) == <<"y", "t", "_">> \o Str(task_id) \o <<"_">>

\* the pattern without the separator after the id: f"yt_{task_id}*.mp3"
Mp3PatternLoose(task_id) ==
    <<"y", "t", "_">> \o Str(task_id) \o <<"*", ".">> \o Mp3

\* f"yt_{task_id}_*.mp3"
Mp3Pattern(task_id) == OutputPrefix(task_id) \o <<"*", ".">> \o Mp3

\* f"yt_{task_id}_*"
AnyPattern(task_id) == OutputPrefix(task_id) \o <<"*">>

Glob(d, pattern) == {f \in d : FnMatch(pattern, f.name)}

\* the broadened search without its extension filter
HasAudioSuffixAny(name) == TRUE

HasAudioSuffix(name) == \E sfx \in AudioSuffixes : EndsWith(name, sfx)

\* files after the two searches
LocateFiles(d, task_id) ==
    IF Glob(d, Mp3Pattern(task_id)) # {}
    THEN Glob(d, Mp3Pattern(task_id))
    ELSE {f \in Glob(d, AnyPattern(task_id)) : HasAudioSuffix(f.name)}

\* the directory after a pipeline run wrote the files w (a name is one file)
WriteFiles(d, w) == {f \in d : \A g \in w : g.name # f.name} \cup w

\* ---------------------------------------------------------------- state
VARIABLES
    pc,                \* per call: "idle", "running", "ran", "returned", "raised"
    task_id,           \* per call: the task_id argument
    env,               \* per call: what the call found in the process environment
    cookie_path,       \* per call: "none", "persistent", "temp", "local"
    temp_cookie_file,  \* per call: TRUE once NamedTemporaryFile returned
    ydl_opts,          \* per call: the options handed to the pipeline
    info,              \* per call: what extract_info did
    written,           \* per call: the files its pipeline run wrote
    result,            \* per call: the tuple returned or the exception raised
    log,               \* per call: the proxy lines it logged
    dir,               \* YT_DOWNLOAD_DIR: a set of [name, size]
    tmpdir,            \* temporary cookie files on disk, one name per call
    probe,             \* last extract_title_only call
    valid              \* last validate_video_url call

fetchVars == <<pc, task_id, env, cookie_path, temp_cookie_file, ydl_opts, info,
               written, result, log, dir, tmpdir>>

vars == <<pc, task_id, env, cookie_path, temp_cookie_file, ydl_opts, info,
          written, result, log, dir, tmpdir, probe, valid>>

\* ---------------------------------------------------------------- inputs
TaskIds == {1, 2, 12}

\* YOUTUBE_COOKIES_B64: unset, "", decodable, or not decodable
B64Values == {"unset", "empty", "valid", "invalid"}

\* what NamedTemporaryFile and write can do
IoOutcomes == {"ok", "create_fails", "write_fails"}

ProxyBase ==
    <<"h", "t", "t", "p", ":", "/", "/", "u", ":", "p", "@", "h", ".", "i",
      "o", ":", "8", "0", "8", "0">>

\* the slice length of proxy_url[:15]
SliceLen == 15

\* PROXY_URL: unset (empty here) or a URL around the slice length
ProxyUrls == {Take(ProxyBase, n) : n \in {0} \cup ((SliceLen - 1)..MaxProxyLen)}

Environments ==
    {e \in [persistent : BOOLEAN, b64 : B64Values, local : BOOLEAN,
            io : IoOutcomes, proxy : ProxyUrls] :
        /\ e.io # "ok" => (~e.persistent /\ e.b64 \in {"valid", "invalid"})
        /\ e.io = "write_fails" => e.b64 = "valid"}

\* the environment of the concurrent model: no proxy, no local file
ConcEnvironments ==
    {e \in Environments :
        /\ ~e.persistent /\ ~e.local /\ e.proxy = <<>>
        /\ e.b64 \in {"unset", "valid"} /\ e.io = "ok"}

TitleA == <<"a">>

Durations ==
    {[t |-> "absent"], [t |-> "none"], [t |-> "int", v |-> 0],
     [t |-> "int", v |-> 5], [t |-> "int", v |-> 0 - 3],
     [t |-> "float", tenths |-> 75]}

Titles == {[has |-> FALSE], [has |-> TRUE, v |-> TitleA]}

PipelineError == "ERROR: Video unavailable"

\* what extract_info(url, download=True) can do
Outcomes ==
    {[kind |-> "raise", msg |-> PipelineError], [kind |-> "none"]}
    \cup {[kind |-> "info", title |-> t, duration |-> d] :
            t \in Titles, d \in Durations}

ConcOutcomes ==
    {[kind |-> "raise", msg |-> PipelineError],
     [kind |-> "info", title |-> [has |-> TRUE, v |-> TitleA],
      duration |-> [t |-> "int", v |-> 5]]}

FileTitles == {TitleA}

Exts == {Mp3, M4a, Wav, Webm}

\* the files a run with this output template can leave: outtmpl with
\* %(title)s and %(ext)s filled in, empty or not
PipelineFiles(outtmpl, titles, exts, sizes) ==
    {[name |-> outtmpl \o t \o <<".">> \o e, size |-> s] :
        t \in titles, e \in exts, s \in sizes}

RECURSIVE FileSets(_, _)
FileSets(files, n) ==
    IF n = 0 THEN {{}}
    ELSE LET smaller == FileSets(files, n - 1)
         IN  smaller \cup
             UNION {{w \cup {f} :
                        f \in {g \in files : \A h \in w : h.name # g.name}} :
                    w \in smaller}

\* ---------------------------------------------------------------- fetcher
\* os.getenv("YOUTUBE_COOKIES_B64") is truthy
EnvSet(b64) == b64 \in {"valid", "invalid"}

\* the chain with the environment variable tested before the persistent file
ResolveCookiesEnvFirst(e) ==
    IF EnvSet(e.b64)
    THEN IF e.io = "create_fails"
         THEN [cookie_path |-> "none", temp_cookie_file |-> FALSE]
         ELSE IF e.b64 = "invalid" \/ e.io = "write_fails"
         THEN [cookie_path |-> "none", temp_cookie_file |-> TRUE]
         ELSE [cookie_path |-> "temp", temp_cookie_file |-> TRUE]
    ELSE IF e.persistent
    THEN [cookie_path |-> "persistent", temp_cookie_file |-> FALSE]
    ELSE IF e.local
    THEN [cookie_path |-> "local", temp_cookie_file |-> FALSE]
    ELSE [cookie_path |-> "none", temp_cookie_file |-> FALSE]

\* the chain with cookie_path assigned before the decode and the write
ResolveCookiesPathFirst(e) ==
    IF e.persistent
    THEN [cookie_path |-> "persistent", temp_cookie_file |-> FALSE]
    ELSE IF EnvSet(e.b64)
    THEN IF e.io = "create_fails"
         THEN [cookie_path |-> "none", temp_cookie_file |-> FALSE]
         ELSE [cookie_path |-> "temp", temp_cookie_file |-> TRUE]
    ELSE IF e.local
    THEN [cookie_path |-> "local", temp_cookie_file |-> FALSE]
    ELSE [cookie_path |-> "none", temp_cookie_file |-> FALSE]

\* Credential resolution: the if / elif / elif chain.  temp_cookie_file is
\* bound as soon as NamedTemporaryFile returns, before the decode and the
\* write; an exception in the try block is logged and leaves cookie_path None.
ResolveCookies(e) ==
    IF e.persistent
    THEN [cookie_path |-> "persistent", temp_cookie_file |-> FALSE]
    ELSE IF EnvSet(e.b64)
    THEN IF e.io = "create_fails"
         THEN [cookie_path |-> "none", temp_cookie_file |-> FALSE]
         ELSE IF e.b64 = "invalid" \/ e.io = "write_fails"
         THEN [cookie_path |-> "none", temp_cookie_file |-> TRUE]
         ELSE [cookie_path |-> "temp", temp_cookie_file |-> TRUE]
    ELSE IF e.local
    THEN [cookie_path |-> "local", temp_cookie_file |-> FALSE]
    ELSE [cookie_path |-> "none", temp_cookie_file |-> FALSE]

UsingProxy ==
    <<"U", "s", "i", "n", "g", " ", "P", "r", "o", "x", "y", ":", " ">>

Masked == <<".", ".", ".", "*", "*", "*">>

\* f"Using Proxy: {proxy_url[:15]}...***"
ProxyLogLine(proxy_url) == UsingProxy \o Take(proxy_url, SliceLen) \o Masked

\* the lines logged under "if proxy_url:"
ProxyLog(proxy_url) ==
    IF proxy_url # <<>> THEN <<ProxyLogLine(proxy_url)>> ELSE <<>>

\* the entries of ydl_opts that depend on the call
BuildOpts(tid, path, proxy_url) ==
    [cookiefile |-> path, outtmpl |-> OutputPrefix(tid), proxy |-> proxy_url]

\* lines 59-130, up to the hand-over to the executor
Start(c, tid, e) ==
    /\ pc[c] = "idle"
    /\ LET r == ResolveCookies(e)
       IN  /\ cookie_path' = [cookie_path EXCEPT ![c] = r.cookie_path]
           /\ temp_cookie_file' =
                  [temp_cookie_file EXCEPT ![c] = r.temp_cookie_file]
           /\ tmpdir' = IF r.temp_cookie_file THEN tmpdir \cup {c} ELSE tmpdir
           /\ ydl_opts' =
                  [ydl_opts EXCEPT ![c] = BuildOpts(tid, r.cookie_path, e.proxy)]
    /\ task_id' = [task_id EXCEPT ![c] = tid]
    /\ env' = [env EXCEPT ![c] = e]
    /\ log' = [log EXCEPT ![c] = ProxyLog(e.proxy)]
    /\ pc' = [pc EXCEPT ![c] = "running"]
    /\ UNCHANGED <<info, written, result, dir, probe, valid>>

\* the blocking extract_info(url, download=True) on the worker: it writes
\* at most n files named by its output template and returns metadata, None,
\* or raises
RunPipeline(c, outcomes, titles, exts, sizes, n) ==
    /\ pc[c] = "running"
    /\ \E o \in outcomes,
          w \in FileSets(PipelineFiles(ydl_opts[c].outtmpl, titles, exts,
                                       sizes), n) :
          /\ info' = [info EXCEPT ![c] = o]
          /\ written' = [written EXCEPT ![c] = w]
          /\ dir' = WriteFiles(dir, w)
    /\ pc' = [pc EXCEPT ![c] = "ran"]
    /\ UNCHANGED <<task_id, env, cookie_path, temp_cookie_file, ydl_opts,
                   result, log, tmpdir, probe, valid>>

Unknown == <<"U", "n", "k", "n", "o", "w", "n">>

NoInfoError == "Failed to extract video information"

NotFoundError == "Downloaded file not found"

NoneTypeError == "int() argument must be a string or a number, not 'NoneType'"

\* int(info.get('duration', 0)): the default for an absent key, TypeError for
\* None, truncation toward zero for a float
PyInt(d) ==
    CASE d.t = "absent" -> [ok |-> TRUE, v |-> 0]
      [] d.t = "none" -> [ok |-> FALSE, msg |-> NoneTypeError]
      [] d.t = "int" -> [ok |-> TRUE, v |-> d.v]
      [] d.t = "float" ->
            [ok |-> TRUE,
             v |-> IF d.tenths >= 0 THEN d.tenths \div 10
                   ELSE 0 - ((0 - d.tenths) \div 10)]

\* info.get('title', 'Unknown')
GetTitle(t) == IF t.has THEN t.v ELSE Unknown

\* except Exception as e: raise ValueError(f"Failed to download from URL: {e}")
Reraise(msg) ==
    [kind |-> "raise", type |-> "ValueError",
     prefix |-> "Failed to download from URL: ", cause |-> msg]

Return(file_path, title, duration) ==
    [kind |-> "return", file_path |-> file_path, title |-> title,
     duration |-> duration]

\* lines 142-171: every result the call can end with.  files[0] is the first
\* name in the order glob lists them, which is any of them; getsize is only
\* logged.
FetchOutcomes(i, d, tid) ==
    IF i.kind = "raise" THEN {Reraise(i.msg)}
    ELSE IF i.kind = "none" THEN {Reraise(NoInfoError)}
    ELSE LET duration == PyInt(i.duration)
         IN  IF ~duration.ok THEN {Reraise(duration.msg)}
             ELSE IF LocateFiles(d, tid) = {} THEN {Reraise(NotFoundError)}
             ELSE {Return(f.name, GetTitle(i.title), duration.v) :
                      f \in LocateFiles(d, tid)}

\* the call without its finally block
CleanupSkipped(t, c, tcf) == t

\* the finally block: os.unlink of the temporary cookie file.  The file is
\* the call's own, in the temporary directory it was just created in, and
\* the unlink removes it; the swallowed unlink error is not a modelled input.
Cleanup(t, c, tcf) == IF tcf /\ c \in t THEN t \ {c} ELSE t

\* lines 142-179, from the worker's answer to the return or the raise
Finish(c) ==
    /\ pc[c] = "ran"
    /\ \E r \in FetchOutcomes(info[c], dir, task_id[c]) :
          /\ result' = [result EXCEPT ![c] = r]
          /\ pc' = [pc EXCEPT ![c] =
                       IF r.kind = "return" THEN "returned" ELSE "raised"]
    /\ tmpdir' = Cleanup(tmpdir, c, temp_cookie_file[c])
    /\ UNCHANGED <<task_id, env, cookie_path, temp_cookie_file, ydl_opts,
                   info, written, log, dir, probe, valid>>

\* ---------------------------------------------------------------- advisory
Urls == {"u1", "u2"}

RECURSIVE TextsUpTo(_)
TextsUpTo(n) ==
    IF n = 0 THEN {<<>>}
    ELSE TextsUpTo(n - 1) \cup
         {Append(s, ch) : s \in {x \in TextsUpTo(n - 1) : Len(x) = n - 1},
                          ch \in {" ", "a"}}

\* what extract_info(url, download=False) can do: raise, return None, or a
\* dict without a title, with a None title, or with a text title
ProbeOutcomes ==
    {[kind |-> "raise"], [kind |-> "none"],
     [kind |-> "info", title |-> [has |-> FALSE]],
     [kind |-> "info", title |-> [has |-> TRUE, none |-> TRUE]]}
    \cup {[kind |-> "info", title |-> [has |-> TRUE, none |-> FALSE, v |-> s]] :
            s \in TextsUpTo(MaxTitleLen)}

NoneResult == [kind |-> "return", some |-> FALSE]

\* extract_title_only without its try / except
ExtractTitleOnlyUnguarded(o) ==
    IF o.kind = "raise" THEN [kind |-> "raise"]
    ELSE IF o.kind = "info" /\ o.title.has
    THEN IF o.title.none THEN [kind |-> "raise"]
         ELSE [kind |-> "return", some |-> TRUE, v |-> Strip(o.title.v)]
    ELSE NoneResult

\* extract_title_only: None.strip() raises AttributeError inside the try
ExtractTitleOnly(o) ==
    IF o.kind = "raise" THEN NoneResult
    ELSE IF o.kind = "info" /\ o.title.has
    THEN IF o.title.none THEN NoneResult
         ELSE [kind |-> "return", some |-> TRUE, v |-> Strip(o.title.v)]
    ELSE NoneResult

\* validate_video_url: True after extract_info, False in the bare except
ValidateVideoUrl(o) ==
    IF o.kind = "raise" THEN [kind |-> "return", v |-> FALSE]
    ELSE [kind |-> "return", v |-> TRUE]

Probe(u, o) ==
    /\ probe' = [url |-> u, outcome |-> o, result |-> ExtractTitleOnly(o)]
    /\ UNCHANGED <<fetchVars, valid>>

Validate(u, o) ==
    /\ valid' = [url |-> u, outcome |-> o, result |-> ValidateVideoUrl(o)]
    /\ UNCHANGED <<fetchVars, probe>>

\* ---------------------------------------------------------------- specifications
Pending == [kind |-> "pending"]

NoEnv ==
    [persistent |-> FALSE, b64 |-> "unset", local |-> FALSE, io |-> "ok",
     proxy |-> <<>>]

Init ==
    /\ pc = [c \in Calls |-> "idle"]
    /\ task_id = [c \in Calls |-> 0]
    /\ env = [c \in Calls |-> NoEnv]
    /\ cookie_path = [c \in Calls |-> "none"]
    /\ temp_cookie_file = [c \in Calls |-> FALSE]
    /\ ydl_opts = [c \in Calls |-> Pending]
    /\ info = [c \in Calls |-> Pending]
    /\ written = [c \in Calls |-> {}]
    /\ result = [c \in Calls |-> Pending]
    /\ log = [c \in Calls |-> <<>>]
    /\ dir = {}
    /\ tmpdir = {}
    /\ probe = [url |-> "", outcome |-> Pending, result |-> Pending]
    /\ valid = [url |-> "", outcome |-> Pending, result |-> Pending]

\* one fetch, over every environment, pipeline outcome and set of files
StartOne == \E tid \in TaskIds, e \in Environments : Start(1, tid, e)

RunOne == RunPipeline(1, Outcomes, FileTitles, Exts, {0, 1}, MaxFiles)

FinishOne == Finish(1)

Next == StartOne \/ RunOne \/ FinishOne

Spec == Init /\ [][Next]_vars

\* concurrent fetches: any interleaving of the calls' three steps
StartConc ==
    \E c \in Calls, tid \in TaskIds, e \in ConcEnvironments : Start(c, tid, e)

RunConc ==
    \E c \in Calls : RunPipeline(c, ConcOutcomes, FileTitles, {Mp3, Webm}, {1}, 1)

FinishConc == \E c \in Calls : Finish(c)

NextConc == StartConc \/ RunConc \/ FinishConc

SpecConc == Init /\ [][NextConc]_vars

\* the two advisory operations
ProbeAny == \E u \in Urls, o \in ProbeOutcomes : Probe(u, o)

ValidateAny ==
    \E u \in Urls, o \in {[kind |-> "raise"], [kind |-> "none"],
                          [kind |-> "info"]} :
        Validate(u, o)

NextAdvisory == ProbeAny \/ ValidateAny

SpecAdvisory == Init /\ [][NextAdvisory]_vars

\* ---------------------------------------------------------------- properties
Done(c) == pc[c] \in {"returned", "raised"}

\* the files of d named yt_<tid>_* with extension .mp3, .m4a or .wav
NamedAudio(d, tid) ==
    {f \in d :
        /\ StartsWith(f.name, <<"y", "t", "_">> \o Str(tid) \o <<"_">>)
        /\ \E x \in {Mp3, M4a, Wav} : EndsWith(f.name, <<".">> \o x)}

\* the files of w named yt_<tid>_*.mp3
NamedMp3(w, tid) ==
    {f \in w :
        /\ StartsWith(f.name, <<"y", "t", "_">> \o Str(tid) \o <<"_">>)
        /\ EndsWith(f.name, <<".">> \o Mp3)}

\* C1: when the pipeline run of a call succeeds and writes a file named
\* yt_<taskId>_*.mp3, the call returns the path of such a file it wrote, with
\* the title and the duration of the metadata the run returned.
C1_ReturnsWrittenMp3 ==
    \A c \in Calls :
        (Done(c) /\ info[c].kind = "info"
                 /\ NamedMp3(written[c], task_id[c]) # {})
        => /\ pc[c] = "returned"
           /\ \E f \in NamedMp3(written[c], task_id[c]) :
                 result[c].file_path = f.name
           /\ info[c].title.has => result[c].title = info[c].title.v
           /\ info[c].duration.t = "int"
                 => result[c].duration = info[c].duration.v

\* C2: a call whose pipeline raised, returned no metadata, or returned
\* while the directory holds no yt_<taskId>_* file with extension .mp3, .m4a
\* or .wav, fails; every failure is a ValueError whose text is the fixed
\* prefix followed by the message of the exception that caused it.
C2_FailuresRaiseDownloadError ==
    \A c \in Calls :
        /\ (Done(c) /\ info[c].kind = "raise")
           => (pc[c] = "raised" /\ result[c].cause = info[c].msg)
        /\ (Done(c) /\ info[c].kind = "none")
           => (pc[c] = "raised" /\ result[c].cause = NoInfoError)
        /\ (Done(c) /\ info[c].kind = "info"
                    /\ NamedAudio(dir, task_id[c]) = {})
           => (pc[c] = "raised"
               /\ result[c].cause \in {NotFoundError, NoneTypeError})
        /\ pc[c] = "raised"
           => /\ result[c].kind = "raise"
              /\ result[c].type = "ValueError"
              /\ result[c].prefix = "Failed to download from URL: "

\* a run that reported success and wrote only a .webm file ends in the error
C2_Witness ==
    \E c \in Calls :
        /\ pc[c] = "raised" /\ info[c].kind = "info"
        /\ written[c] # {} /\ NamedAudio(dir, task_id[c]) = {}
        /\ result[c].cause = NotFoundError

C4_CredentialPrecedence ==
    \A c \in Calls :
        pc[c] # "idle" =>
            LET e == env[c]
                cf == ydl_opts[c].cookiefile
                set == e.b64 \in {"valid", "invalid"}
            IN  /\ e.persistent => (cf = "persistent" /\ ~temp_cookie_file[c])
                /\ (~e.persistent /\ set)
                   => /\ cf \in {"temp", "none"}
                      /\ cf = "temp" <=> (e.b64 = "valid" /\ e.io = "ok")
                /\ (~e.persistent /\ ~set /\ e.local)
                   => (cf = "local" /\ ~temp_cookie_file[c])
                /\ (~e.persistent /\ ~set /\ ~e.local)
                   => (cf = "none" /\ ~temp_cookie_file[c])

\* all three sources present: the persistent file is handed over
C4_Witness ==
    \E c \in Calls :
        /\ pc[c] = "returned"
        /\ env[c].persistent /\ env[c].b64 = "valid" /\ env[c].local
        /\ ydl_opts[c].cookiefile = "persistent" /\ c \notin tmpdir

DistinctIds ==
    \A c1, c2 \in Calls :
        (c1 # c2 /\ pc[c1] # "idle" /\ pc[c2] # "idle")
        => task_id[c1] # task_id[c2]

\* C5: among calls given pairwise distinct task ids, a call that returns a
\* path returns a file its own pipeline run wrote, which no other call's run
\* wrote, and a call whose run wrote no file raises.
C5_OwnFileOnly ==
    DistinctIds =>
        \A c \in Calls :
            /\ pc[c] = "returned"
               => /\ \E f \in written[c] : f.name = result[c].file_path
                  /\ \A c2 \in Calls \ {c} :
                        \A f \in written[c2] : f.name # result[c].file_path
            /\ (Done(c) /\ written[c] = {}) => pc[c] = "raised"

\* task 1 wrote nothing and raised while the file of task 12 was on disk
C5_Witness ==
    \E c1, c2 \in Calls :
        /\ task_id[c1] = 1 /\ task_id[c2] = 12
        /\ pc[c1] = "raised" /\ info[c1].kind = "info" /\ written[c1] = {}
        /\ pc[c2] = "returned" /\ written[c2] \subseteq dir
        /\ written[c2] # {}

\* C6: every returned duration is a non-negative integer, and a call whose
\* pipeline reported a duration of None, with a file to locate, returns 0.
C6_DurationNonNegative ==
    \A c \in Calls :
        /\ pc[c] = "returned" => result[c].duration >= 0
        /\ (Done(c) /\ info[c].kind = "info" /\ info[c].duration.t = "none"
                    /\ NamedAudio(dir, task_id[c]) # {})
           => (pc[c] = "returned" /\ result[c].duration = 0)

C8_AdvisoryNeverRaise ==
    /\ probe.result.kind \in {"pending", "return"}
    /\ (\/ probe.outcome.kind \in {"raise", "none"}
        \/ (probe.outcome.kind = "info" /\ ~probe.outcome.title.has))
       => probe.result = NoneResult
    /\ valid.result.kind \in {"pending", "return"}
    /\ valid.outcome.kind = "raise" => valid.result.v = FALSE
    /\ (valid.result.kind = "return" /\ valid.result.v)
       => valid.outcome.kind \in {"none", "info"}

\* both extractions raised: None and False came back
C8_Witness ==
    /\ probe.outcome.kind = "raise" /\ probe.result = NoneResult
    /\ valid.outcome.kind = "raise"
    /\ valid.result.kind = "return" /\ valid.result.v = FALSE

\* C9: a returned file_path names a file of the directory whose size is
\* greater than zero.
C9_ReturnedFileNonEmpty ==
    \A c \in Calls :
        pc[c] = "returned"
        => \E f \in dir : f.name = result[c].file_path /\ f.size > 0

\* C10: the proxy line of the log shows a strict prefix of a non-empty proxy
\* URL and does not contain the whole URL.
C10_ProxyNeverLoggedInFull ==
    \A c \in Calls :
        (pc[c] # "idle" /\ env[c].proxy # <<>>)
        => \A k \in 1..Len(log[c]) :
              /\ ~Contains(log[c][k], env[c].proxy)
              /\ \E n \in 0..(Len(env[c].proxy) - 1) :
                    log[c][k] = UsingProxy \o Take(env[c].proxy, n) \o Masked

====
